---- MODULE Spec2Model ----
(***************************************************************************)
(* Reference arithmetic coding (ArithmeticCoder.cpp): the shared interval  *)
(* state of ArithmeticCoderBase, the ArithmeticEncoder and the             *)
(* ArithmeticDecoder, modelled as a state machine.                         *)
(*                                                                         *)
(* The coder computes in std::uint64_t.  TLC's integers are 32 bits wide,  *)
(* so a 64-bit value is held as a tuple of five limbs of 14 bits, least    *)
(* significant first (the fifth limb holds the top 8 bits), and the        *)
(* operators of the first section compute on those tuples what the machine *)
(* computes on the words: sums, differences and products are reduced       *)
(* modulo 2^64.  A value has one tuple only, so = on tuples is == on words.*)
(***************************************************************************)
EXTENDS Integers, Sequences, FiniteSets, TLC

\* ------------------------------------------------------------------------
\* std::uint64_t
\* ------------------------------------------------------------------------

\* The width of std::uint64_t.
WordBits == 64

LimbBase == 2^14

\* The fifth limb holds the bits 56..63.
TopLimbBase == 2^(WordBits - 4 * 14)

\* The word of value n, for 0 <= n < 2^31.
FromInt(n) ==
  <<n % LimbBase, (n \div LimbBase) % LimbBase, n \div (LimbBase * LimbBase), 0, 0>>

\* The value of a word below 2^31 (the low 31 bits of any other word).
ToInt(a) == a[1] + a[2] * LimbBase + (a[3] % 8) * LimbBase * LimbBase

U0 == FromInt(0)
U1 == FromInt(1)
U2 == FromInt(2)

\* std::numeric_limits<std::uint64_t>::max()
UINT64_MAX == <<LimbBase - 1, LimbBase - 1, LimbBase - 1, LimbBase - 1, TopLimbBase - 1>>

Pow2Limb(k, i) == IF k \div 14 = i - 1 THEN 2^(k % 14) ELSE 0

\* 1 << k, for 0 <= k < 64.
UPow2(k) == <<Pow2Limb(k, 1), Pow2Limb(k, 2), Pow2Limb(k, 3), Pow2Limb(k, 4), Pow2Limb(k, 5)>>

\* (x >> k) & 1: bit k of x.
UBit(x, k) == (x[k \div 14 + 1] \div 2^(k % 14)) % 2

\* The sum of two tuples, kept to 70 bits.
UAddLimbs(a, b) ==
  LET s1 == a[1] + b[1]
      s2 == a[2] + b[2] + s1 \div LimbBase
      s3 == a[3] + b[3] + s2 \div LimbBase
      s4 == a[4] + b[4] + s3 \div LimbBase
      s5 == a[5] + b[5] + s4 \div LimbBase
  IN  <<s1 % LimbBase, s2 % LimbBase, s3 % LimbBase, s4 % LimbBase, s5 % LimbBase>>

\* The difference of two tuples, kept to 70 bits (\div rounds down, so a
\* borrow is a carry of -1).
USubLimbs(a, b) ==
  LET s1 == a[1] - b[1]
      s2 == a[2] - b[2] + s1 \div LimbBase
      s3 == a[3] - b[3] + s2 \div LimbBase
      s4 == a[4] - b[4] + s3 \div LimbBase
      s5 == a[5] - b[5] + s4 \div LimbBase
  IN  <<s1 % LimbBase, s2 % LimbBase, s3 % LimbBase, s4 % LimbBase, s5 % LimbBase>>

\* Reduction modulo 2^64.
Wrap(x) == <<x[1], x[2], x[3], x[4], x[5] % TopLimbBase>>

\* The exact product of two words: ten limbs (140 bits).
UMulWide(a, b) ==
  LET
      c1 == a[1] * b[1]
      c2 == a[1] * b[2] + a[2] * b[1] + c1 \div LimbBase
      c3 == a[1] * b[3] + a[2] * b[2] + a[3] * b[1] + c2 \div LimbBase
      c4 == a[1] * b[4] + a[2] * b[3] + a[3] * b[2] + a[4] * b[1] + c3 \div LimbBase
      c5 == a[1] * b[5] + a[2] * b[4] + a[3] * b[3] + a[4] * b[2] + a[5] * b[1] + c4 \div LimbBase
      c6 == a[2] * b[5] + a[3] * b[4] + a[4] * b[3] + a[5] * b[2] + c5 \div LimbBase
      c7 == a[3] * b[5] + a[4] * b[4] + a[5] * b[3] + c6 \div LimbBase
      c8 == a[4] * b[5] + a[5] * b[4] + c7 \div LimbBase
      c9 == a[5] * b[5] + c8 \div LimbBase
  IN  <<c1 % LimbBase, c2 % LimbBase, c3 % LimbBase, c4 % LimbBase, c5 % LimbBase,
        c6 % LimbBase, c7 % LimbBase, c8 % LimbBase, c9 % LimbBase, c9 \div LimbBase>>

\* Whether a ten-limb value is at most UINT64_MAX.
FitsWord(w) ==
  w[5] < TopLimbBase /\ w[6] = 0 /\ w[7] = 0 /\ w[8] = 0 /\ w[9] = 0 /\ w[10] = 0

\* a + b, a - b, a * b in std::uint64_t.
Add64(a, b) == Wrap(UAddLimbs(a, b))
Sub64(a, b) == Wrap(USubLimbs(a, b))
Mul64(a, b) == Wrap(UMulWide(a, b))

\* Whether the exact product a * b is above UINT64_MAX.
MulOverflows(a, b) == ~FitsWord(UMulWide(a, b))

ULess(a, b) ==
  \/ a[5] < b[5]
  \/ a[5] = b[5] /\ a[4] < b[4]
  \/ a[5] = b[5] /\ a[4] = b[4] /\ a[3] < b[3]
  \/ a[5] = b[5] /\ a[4] = b[4] /\ a[3] = b[3] /\ a[2] < b[2]
  \/ a[5] = b[5] /\ a[4] = b[4] /\ a[3] = b[3] /\ a[2] = b[2] /\ a[1] < b[1]

ULeq(a, b) == ~ULess(b, a)

UMin(a, b) == IF ULess(b, a) THEN b ELSE a

\* x >> k, for 0 <= k < 64.
ShrLimb(x, k, i) ==
  LET q == k \div 14
      r == k % 14
      lo == IF i + q <= 5 THEN x[i + q] ELSE 0
      hi == IF i + q + 1 <= 5 THEN x[i + q + 1] ELSE 0
  IN  lo \div 2^r + (hi % 2^r) * 2^(14 - r)

UShr(x, k) ==
  <<ShrLimb(x, k, 1), ShrLimb(x, k, 2), ShrLimb(x, k, 3), ShrLimb(x, k, 4),
    ShrLimb(x, k, 5)>>

\* x << 1 in std::uint64_t.
Shl1(x) == Add64(x, x)

\* x & y on two values of 7 bits, bit by bit.
RECURSIVE AndBits(_, _)
AndBits(x, y) ==
  IF x = 0 \/ y = 0 THEN 0
  ELSE (x % 2) * (y % 2) + 2 * AndBits(x \div 2, y \div 2)

\* The table of x & y for 7-bit values, computed once.
And7 == [x \in 0..127 |-> [y \in 0..127 |-> AndBits(x, y)]]

\* x & y on two limbs: the halves of 7 bits are looked up.
AndLimb(x, y) == And7[x % 128][y % 128] + 128 * And7[x \div 128][y \div 128]

\* a & b, a | b, a ^ b, ~a in std::uint64_t.
UAnd(a, b) ==
  <<AndLimb(a[1], b[1]), AndLimb(a[2], b[2]), AndLimb(a[3], b[3]),
    AndLimb(a[4], b[4]), AndLimb(a[5], b[5])>>

UOr(a, b) ==
  <<a[1] + b[1] - AndLimb(a[1], b[1]), a[2] + b[2] - AndLimb(a[2], b[2]),
    a[3] + b[3] - AndLimb(a[3], b[3]), a[4] + b[4] - AndLimb(a[4], b[4]),
    a[5] + b[5] - AndLimb(a[5], b[5])>>

UXor(a, b) ==
  <<a[1] + b[1] - 2 * AndLimb(a[1], b[1]), a[2] + b[2] - 2 * AndLimb(a[2], b[2]),
    a[3] + b[3] - 2 * AndLimb(a[3], b[3]), a[4] + b[4] - 2 * AndLimb(a[4], b[4]),
    a[5] + b[5] - 2 * AndLimb(a[5], b[5])>>

UNot(a) ==
  <<LimbBase - 1 - a[1], LimbBase - 1 - a[2], LimbBase - 1 - a[3],
    LimbBase - 1 - a[4], TopLimbBase - 1 - a[5]>>

RECURSIVE IntBitLen(_)
IntBitLen(n) == IF n = 0 THEN 0 ELSE 1 + IntBitLen(n \div 2)

\* The number of significant bits of x (0 for x = 0).
UBitLen(x) ==
  IF x[5] # 0 THEN 56 + IntBitLen(x[5])
  ELSE IF x[4] # 0 THEN 42 + IntBitLen(x[4])
  ELSE IF x[3] # 0 THEN 28 + IntBitLen(x[3])
  ELSE IF x[2] # 0 THEN 14 + IntBitLen(x[2])
  ELSE IntBitLen(x[1])

\* Division by a divisor d below 2^17, limb by limb from the top.
ShortDiv(n, d) ==
  LET c5 == n[5]
      c4 == (c5 % d) * LimbBase + n[4]
      c3 == (c4 % d) * LimbBase + n[3]
      c2 == (c3 % d) * LimbBase + n[2]
      c1 == (c2 % d) * LimbBase + n[1]
  IN  <<c1 \div d, c2 \div d, c3 \div d, c4 \div d, c5 \div d>>

\* Binary long division: p = <<q, r>> is the quotient and the remainder of
\* the bits of n above bit i.
RECURSIVE LongDiv(_, _, _, _)
LongDiv(n, d, i, p) ==
  IF i < 0 THEN p[1]
  ELSE LET r2 == UAddLimbs(UAddLimbs(p[2], p[2]), FromInt(UBit(n, i)))
           q2 == UAddLimbs(p[1], p[1])
       IN  IF ULess(r2, d) THEN LongDiv(n, d, i - 1, <<q2, r2>>)
           ELSE LongDiv(n, d, i - 1, <<UAddLimbs(q2, U1), USubLimbs(r2, d)>>)

\* n / d in std::uint64_t, for d # 0.  The quotient has no bit above
\* position UBitLen(n) - UBitLen(d), so the long division starts there.
Div64(n, d) ==
  LET s == UBitLen(n) - UBitLen(d)
  IN  IF s < 0 THEN U0
      ELSE IF UBitLen(d) <= 17 THEN ShortDiv(n, d[1] + d[2] * LimbBase)
      ELSE LongDiv(n, d, s, <<U0, UShr(n, s + 1)>>)

\* ------------------------------------------------------------------------
\* FrequencyTable and the bit streams (the interfaces the coder consumes)
\* ------------------------------------------------------------------------

\* A frequency table is the tuple of its symbols' frequencies; the symbols
\* are 0 .. getSymbolLimit - 1.
RECURSIVE SumTo(_, _)
SumTo(freqs, n) == IF n = 0 THEN 0 ELSE freqs[n] + SumTo(freqs, n - 1)

getSymbolLimit(freqs) == Len(freqs)
getTotal(freqs) == SumTo(freqs, Len(freqs))
getLow(freqs, symbol) == SumTo(freqs, symbol)
getHigh(freqs, symbol) == SumTo(freqs, symbol + 1)

\* BitInputStream::read(): the next bit of the stream, -1 at its end.
BitInputStream_read(input, pos) == IF pos < Len(input) THEN input[pos + 1] ELSE -1

\* ------------------------------------------------------------------------
\* Bounds of the model
\* ------------------------------------------------------------------------

\* The symbols one encoder writes.
MaxLen == 3

\* The length of a bit sequence given to a decoder that no encoder wrote.
MaxBits == 3

\* The symbols read from such a bit sequence.
MaxReads == 2

\* The explicit 0 bits appended to the input of the second decoder.
MaxPad == 2

\* std::numeric_limits<decltype(numUnderflow)>::max(), scaled down so that
\* MaxLen symbols reach it.
NumUnderflowMax == 2

\* The state sizes the constructors are called with.
CtorSizes == {-1, 0, 1, 2, 3, 62, 63, 64}

\* The frequency tables of the calls: the frequencies of the symbols 0, 1, ...
Tables == {<<1>>, <<1, 1>>, <<0, 0>>, <<0, 1, 2, 0>>, <<1, 2, 1>>}

RECURSIVE BitSeqs(_)
BitSeqs(n) ==
  IF n = 0 THEN {<<>>}
  ELSE BitSeqs(n - 1) \cup {Append(q, bit) : q \in {r \in BitSeqs(n - 1) : Len(r) = n - 1}, bit \in {0, 1}}

Zeros(n) == [i \in 1..n |-> 0]

\* The bit sequences given to a decoder that no encoder wrote.
InputBits == BitSeqs(MaxBits)

\* ------------------------------------------------------------------------
\* ArithmeticCoderBase
\* ------------------------------------------------------------------------

\* A coder object: the fields of ArithmeticCoderBase, those of the encoder
\* (numUnderflow, and output, the bits written to its BitOutputStream) and
\* those of the decoder (code, and input and pos, its BitInputStream and the
\* number of read() calls made on it).  err is the exception the last
\* operation on the object threw ("" when it returned), ret the symbol the
\* last read returned.  log and steps are history: log holds, for each call
\* of shift() or underflow() the last update made, the fields the object had
\* at the call, and steps counts these calls since construction.
NoCoder ==
  [dir |-> "none", numStateBits |-> 0, fullRange |-> U0, halfRange |-> U0,
   quarterRange |-> U0, MIN_RANGE |-> U0, MAX_TOTAL |-> U0, MASK |-> U0,
   low |-> U0, high |-> U0, numUnderflow |-> 0, output |-> <<>>,
   code |-> U0, input |-> <<>>, pos |-> 0, err |-> "", ret |-> 0,
   log |-> <<>>, steps |-> 0]

Throw(c, e) == [c EXCEPT !.err = e]

\* A maximum total that is bounded by MIN_RANGE only.
MaxTotalOf_MinRangeOnly(fullRange, MIN_RANGE) == MIN_RANGE

\* MAX_TOTAL = std::min(std::numeric_limits<decltype(fullRange)>::max() / fullRange, MIN_RANGE)
MaxTotalOf(fullRange, MIN_RANGE) == UMin(Div64(UINT64_MAX, fullRange), MIN_RANGE)

\* A minimum range one too small.
MinRangeOf_PlusOne(fullRange) == Add64(UShr(fullRange, 2), U1)

\* MIN_RANGE = (fullRange >> 2) + 2
MinRangeOf(fullRange) == Add64(UShr(fullRange, 2), U2)

\* A range check that lets 64 through.
StateSizeOutOfRange_Above64(stateSize) == stateSize < 1 \/ stateSize > 64

\* stateSize < 1 || stateSize > 63
StateSizeOutOfRange(stateSize) == stateSize < 1 \/ stateSize > 63

ArithmeticCoderBase(c, stateSize) ==
  IF StateSizeOutOfRange(stateSize)
    THEN Throw(c, "domain_error: State size out of range")
  ELSE LET fullRange == UPow2(stateSize)
           halfRange == UShr(fullRange, 1)
           MASK == Sub64(fullRange, U1)
       IN  [c EXCEPT !.numStateBits = stateSize,
                     !.fullRange = fullRange,
                     !.halfRange = halfRange,
                     !.quarterRange = UShr(halfRange, 1),
                     !.MIN_RANGE = MinRangeOf(fullRange),
                     !.MAX_TOTAL = MaxTotalOf(fullRange, MinRangeOf(fullRange)),
                     !.MASK = MASK,
                     !.low = U0,
                     !.high = MASK]

\* ------------------------------------------------------------------------
\* The hooks: ArithmeticEncoder::shift/underflow, ArithmeticDecoder::shift/underflow
\* ------------------------------------------------------------------------

\* A readCodeBit() that takes the end of the stream for a 1 bit.
EndOfStreamBit_One(temp) == IF temp = -1 THEN 1 ELSE temp

\* int temp = input.read(); if (temp == -1) temp = 0;
EndOfStreamBit(temp) == IF temp = -1 THEN 0 ELSE temp

\* The bit readCodeBit() returns.
ArithmeticDecoder_readCodeBit(c) == EndOfStreamBit(BitInputStream_read(c.input, c.pos))

\* A shift() that writes the saved underflow bits as copies of the bit.
XorOne_Same(bit) == bit

\* bit ^ 1 on an int
XorOne(bit) == bit + 1 - 2 * (bit % 2)

\* A shift() that writes the saved underflow bits before the bit.
ShiftBits_DeferredFirst(bit, numUnderflow) == [i \in 1..numUnderflow |-> XorOne(bit)] \o <<bit>>

\* The bits one shift() writes: the top bit of low, then the saved underflow bits.
ShiftBits(bit, numUnderflow) == <<bit>> \o [i \in 1..numUnderflow |-> XorOne(bit)]

\* A shift() that writes the saved underflow bits and goes on counting them.
ArithmeticEncoder_shift_KeepCount(c) ==
  LET bit == ToInt(UShr(c.low, c.numStateBits - 1))
  IN  [c EXCEPT !.output = c.output \o ShiftBits(bit, c.numUnderflow)]

ArithmeticEncoder_shift(c) ==
  LET bit == ToInt(UShr(c.low, c.numStateBits - 1))
  IN  [c EXCEPT !.output = c.output \o ShiftBits(bit, c.numUnderflow),
                !.numUnderflow = 0]

\* An underflow() that counts on past the maximum.
ArithmeticEncoder_underflow_Unchecked(c) == [c EXCEPT !.numUnderflow = c.numUnderflow + 1]

\* if (numUnderflow == max) throw std::overflow_error(...); numUnderflow++;
ArithmeticEncoder_underflow(c) ==
  IF c.numUnderflow = NumUnderflowMax
    THEN Throw(c, "overflow_error: Maximum underflow reached")
  ELSE [c EXCEPT !.numUnderflow = c.numUnderflow + 1]

\* A shift() that shifts a 0 into code whatever the input holds.
ArithmeticDecoder_shift_ZeroBit(c) ==
  [c EXCEPT !.code = UAnd(Shl1(c.code), c.MASK), !.pos = c.pos + 1]

\* code = ((code << 1) & MASK) | readCodeBit();
ArithmeticDecoder_shift(c) ==
  [c EXCEPT !.code = UOr(UAnd(Shl1(c.code), c.MASK), FromInt(ArithmeticDecoder_readCodeBit(c))),
            !.pos = c.pos + 1]

\* An underflow() that shifts code as shift() does, losing its top bit.
ArithmeticDecoder_underflow_AsShift(c) ==
  [c EXCEPT !.code = UOr(UAnd(Shl1(c.code), c.MASK), FromInt(ArithmeticDecoder_readCodeBit(c))),
            !.pos = c.pos + 1]

\* code = (code & halfRange) | ((code << 1) & (MASK >> 1)) | readCodeBit();
ArithmeticDecoder_underflow(c) ==
  [c EXCEPT !.code = UOr(UOr(UAnd(c.code, c.halfRange),
                             UAnd(Shl1(c.code), UShr(c.MASK, 1))),
                         FromInt(ArithmeticDecoder_readCodeBit(c))),
            !.pos = c.pos + 1]

\* What log keeps of a call of the hook on c.
Logged(c, hook) ==
  [hook |-> hook, low |-> c.low, high |-> c.high, numUnderflow |-> c.numUnderflow,
   written |-> Len(c.output), pos |-> c.pos]

\* h, the object a hook returned normally from when called on c, with the call logged
Called(c, h, hook) ==
  [h EXCEPT !.log = Append(c.log, Logged(c, hook)), !.steps = c.steps + 1]

\* The virtual call shift() of update
shift(c) ==
  Called(c, IF c.dir = "encoder" THEN ArithmeticEncoder_shift(c) ELSE ArithmeticDecoder_shift(c),
         "shift")

\* The virtual call underflow() of update
underflow(c) ==
  LET h == IF c.dir = "encoder" THEN ArithmeticEncoder_underflow(c)
           ELSE ArithmeticDecoder_underflow(c)
  IN  IF h.err # "" THEN h ELSE Called(c, h, "underflow")

\* ------------------------------------------------------------------------
\* ArithmeticCoderBase::update
\* ------------------------------------------------------------------------

\* ((low ^ high) & halfRange) == 0
TopBitsEqual(c) == UAnd(UXor(c.low, c.high), c.halfRange) = U0

\* (low & ~high & quarterRange) != 0
UnderflowDue(c) == UAnd(UAnd(c.low, UNot(c.high)), c.quarterRange) # U0

\* The body of the first loop after its hook: low and high shifted left.
ShiftInterval(c) ==
  [c EXCEPT !.low = UAnd(Shl1(c.low), c.MASK),
            !.high = UOr(UAnd(Shl1(c.high), c.MASK), U1)]

\* A second loop that forgets to set the top bit of high again.
UnderflowInterval_NoHalfRange(c) ==
  [c EXCEPT !.low = UAnd(Shl1(c.low), UShr(c.MASK, 1)),
            !.high = UOr(UAnd(Shl1(c.high), UShr(c.MASK, 1)), U1)]

\* The body of the second loop after its hook: the second highest bit deleted.
UnderflowInterval(c) ==
  [c EXCEPT !.low = UAnd(Shl1(c.low), UShr(c.MASK, 1)),
            !.high = UOr(UOr(UAnd(Shl1(c.high), UShr(c.MASK, 1)), c.halfRange), U1)]

\* while (((low ^ high) & halfRange) == 0) { shift(); ... }
RECURSIVE ShiftLoop(_)
ShiftLoop(c) == IF TopBitsEqual(c) THEN ShiftLoop(ShiftInterval(shift(c))) ELSE c

RECURSIVE UnderflowLoop(_)

\* A second loop that tests its condition after the body, not before.
UnderflowLoop_DoWhile(c) ==
  LET h == underflow(c)
  IN  IF h.err # "" THEN h
      ELSE IF UnderflowDue(UnderflowInterval(h)) THEN UnderflowLoop(UnderflowInterval(h))
      ELSE UnderflowInterval(h)

\* while ((low & ~high & quarterRange) != 0) { underflow(); ... }; a throwing
\* underflow() leaves the loop with low and high as they are.
UnderflowLoop(c) ==
  IF UnderflowDue(c)
    THEN LET h == underflow(c)
         IN  IF h.err # "" THEN h ELSE UnderflowLoop(UnderflowInterval(h))
  ELSE c

\* low >= high || (low & MASK) != low || (high & MASK) != high
StateCheckFails(c) ==
  ULeq(c.high, c.low) \/ UAnd(c.low, c.MASK) # c.low \/ UAnd(c.high, c.MASK) # c.high

\* range < MIN_RANGE || range > fullRange
RangeCheckFails(c, range) == ULess(range, c.MIN_RANGE) \/ ULess(c.fullRange, range)

\* An update that takes a symbol for one of zero frequency only when its
\* cumulative high is zero.
ZeroFrequency_HighIsZero(symLow, symHigh) == symHigh = 0

\* symLow == symHigh
ZeroFrequency(symLow, symHigh) == symLow = symHigh

\* An update and a read that accept every total.
TotalTooLarge_Never(c, total) == FALSE

\* total > MAX_TOTAL
TotalTooLarge(c, total) == ULess(c.MAX_TOTAL, FromInt(total))

\* low + symLow * range / total
NewLow(low, symLow, range, total) ==
  Add64(low, Div64(Mul64(FromInt(symLow), range), FromInt(total)))

\* A newHigh that is the bound of the next symbol, not the value below it.
NewHigh_NoMinusOne(low, symHigh, range, total) ==
  Add64(low, Div64(Mul64(FromInt(symHigh), range), FromInt(total)))

\* low + symHigh * range / total - 1
NewHigh(low, symHigh, range, total) ==
  Sub64(Add64(low, Div64(Mul64(FromInt(symHigh), range), FromInt(total))), U1)

\* The two loops of update in the other order.
Renormalize_UnderflowFirst(c) == ShiftLoop(UnderflowLoop(c))

\* The two loops of update, one after the other.
Renormalize(c) == UnderflowLoop(ShiftLoop(c))

\* An update that tests the total only when it has narrowed the interval.
update_TotalCheckLast(c, freqs, symbol) ==
  IF StateCheckFails(c)
    THEN Throw(c, "logic_error: Assertion error: Low or high out of range")
  ELSE LET range == Add64(Sub64(c.high, c.low), U1)
           total == getTotal(freqs)
           symLow == getLow(freqs, symbol)
           symHigh == getHigh(freqs, symbol)
           n == [c EXCEPT !.low = NewLow(c.low, symLow, range, total),
                          !.high = NewHigh(c.low, symHigh, range, total),
                          !.log = <<>>]
       IN  IF RangeCheckFails(c, range)
             THEN Throw(c, "logic_error: Assertion error: Range out of range")
           ELSE IF ZeroFrequency(symLow, symHigh)
             THEN Throw(c, "invalid_argument: Symbol has zero frequency")
           ELSE IF TotalTooLarge(c, total)
             THEN Throw(n, "invalid_argument: Cannot code symbol because total is too large")
           ELSE Renormalize(n)

update(c, freqs, symbol) ==
  IF StateCheckFails(c)
    THEN Throw(c, "logic_error: Assertion error: Low or high out of range")
  ELSE LET range == Add64(Sub64(c.high, c.low), U1)
           total == getTotal(freqs)
           symLow == getLow(freqs, symbol)
           symHigh == getHigh(freqs, symbol)
       IN  IF RangeCheckFails(c, range)
             THEN Throw(c, "logic_error: Assertion error: Range out of range")
           ELSE IF ZeroFrequency(symLow, symHigh)
             THEN Throw(c, "invalid_argument: Symbol has zero frequency")
           ELSE IF TotalTooLarge(c, total)
             THEN Throw(c, "invalid_argument: Cannot code symbol because total is too large")
           ELSE Renormalize(
                  [c EXCEPT !.low = NewLow(c.low, symLow, range, total),
                            !.high = NewHigh(c.low, symHigh, range, total),
                            !.log = <<>>])

\* ------------------------------------------------------------------------
\* ArithmeticEncoder
\* ------------------------------------------------------------------------

ArithmeticEncoder(stateSize) ==
  ArithmeticCoderBase([NoCoder EXCEPT !.dir = "encoder"], stateSize)

ArithmeticEncoder_write(c, freqs, symbol) == update(c, freqs, symbol)

\* A finish() that writes the saved underflow bits after its bit.
ArithmeticEncoder_finish_Flush(c) ==
  [c EXCEPT !.output = c.output \o <<1>> \o [i \in 1..c.numUnderflow |-> 0],
            !.numUnderflow = 0]

ArithmeticEncoder_finish(c) == [c EXCEPT !.output = Append(c.output, 1)]

\* ------------------------------------------------------------------------
\* ArithmeticDecoder
\* ------------------------------------------------------------------------

\* for (int i = 0; i < numStateBits; i++) code = code << 1 | readCodeBit();
RECURSIVE PrimeCode(_, _)
PrimeCode(c, i) ==
  IF i < c.numStateBits
    THEN PrimeCode([c EXCEPT !.code = UOr(Shl1(c.code), FromInt(ArithmeticDecoder_readCodeBit(c))),
                             !.pos = c.pos + 1],
                   i + 1)
  ELSE c

ArithmeticDecoder(stateSize, in) ==
  LET base == ArithmeticCoderBase([NoCoder EXCEPT !.dir = "decoder", !.input = in], stateSize)
  IN  IF base.err # "" THEN base ELSE PrimeCode(base, 0)

\* A binary search that also turns down a symbol whose getLow equals value.
RECURSIVE SearchLoop_AtOrAbove(_, _, _, _)
SearchLoop_AtOrAbove(freqs, value, start, end) ==
  IF end - start > 1
    THEN LET middle == (start + end) \div 2
         IN  IF ULeq(value, FromInt(getLow(freqs, middle)))
               THEN SearchLoop_AtOrAbove(freqs, value, start, middle)
             ELSE SearchLoop_AtOrAbove(freqs, value, middle, end)
  ELSE <<start, end>>

\* while (end - start > 1) { middle = (start + end) >> 1; ... }: <<start, end>>
RECURSIVE SearchLoop(_, _, _, _)
SearchLoop(freqs, value, start, end) ==
  IF end - start > 1
    THEN LET middle == (start + end) \div 2
         IN  IF ULess(value, FromInt(getLow(freqs, middle)))
               THEN SearchLoop(freqs, value, start, middle)
             ELSE SearchLoop(freqs, value, middle, end)
  ELSE <<start, end>>

\* A value rounded up: ((offset + 1) * total) / range
ValueOf_NoMinusOne(offset, total, range) ==
  Div64(Mul64(Add64(offset, U1), FromInt(total)), range)

\* ((offset + 1) * total - 1) / range
ValueOf(offset, total, range) ==
  Div64(Sub64(Mul64(Add64(offset, U1), FromInt(total)), U1), range)

\* code < low || code > high
CodeOutOfRange(c) == ULess(c.code, c.low) \/ ULess(c.high, c.code)

\* The quotients a division by zero that does not trap leaves in the register.
DivByZeroQuotients == {U0, UINT64_MAX}

\* What a division by zero does: the build traps, or goes on with a quotient.
Trap == [trap |-> TRUE, quotient |-> U0]
DivByZeroOutcomes == {Trap} \cup {[trap |-> FALSE, quotient |-> q] : q \in DivByZeroQuotients}

\* read(freqs).  A table of total 0 makes value * range / total a division by
\* zero, undefined behaviour, with the outcome ub.
ArithmeticDecoder_read(c, freqs, ub) ==
  LET total == getTotal(freqs)
      range == Add64(Sub64(c.high, c.low), U1)
      offset == Sub64(c.code, c.low)
      value == ValueOf(offset, total, range)
      back == IF total = 0 THEN ub.quotient ELSE Div64(Mul64(value, range), FromInt(total))
      found == SearchLoop(freqs, value, 0, getSymbolLimit(freqs))
      symbol == found[1]
  IN  IF TotalTooLarge(c, total)
        THEN Throw(c, "invalid_argument: Cannot decode symbol because total is too large")
      ELSE IF total = 0 /\ ub.trap
        THEN Throw(c, "undefined behaviour: division by zero")
      ELSE IF ULess(offset, back)
        THEN Throw(c, "logic_error: Assertion error")
      ELSE IF ULeq(FromInt(total), value)
        THEN Throw(c, "logic_error: Assertion error")
      ELSE IF found[1] + 1 # found[2]
        THEN Throw(c, "logic_error: Assertion error")
      ELSE IF \/ ULess(offset, Div64(Mul64(FromInt(getLow(freqs, symbol)), range), FromInt(total)))
              \/ ULeq(Div64(Mul64(FromInt(getHigh(freqs, symbol)), range), FromInt(total)), offset)
        THEN Throw(c, "logic_error: Assertion error")
      ELSE LET u == update(c, freqs, symbol)
           IN  IF u.err # "" THEN u
               ELSE IF CodeOutOfRange(u)
                 THEN Throw(u, "logic_error: Assertion error: Code out of range")
               ELSE [u EXCEPT !.ret = symbol]

\* The exceptions that reject the arguments of a call before any product is formed.
RejectedArgument ==
  {"invalid_argument: Symbol has zero frequency",
   "invalid_argument: Cannot code symbol because total is too large",
   "invalid_argument: Cannot decode symbol because total is too large"}

\* ------------------------------------------------------------------------
\* The products of the narrowing arithmetic
\* ------------------------------------------------------------------------

\* The factors of symLow * range and symHigh * range in update.
UpdateProducts(c, freqs, symbol) ==
  LET range == Add64(Sub64(c.high, c.low), U1)
  IN  << <<FromInt(getLow(freqs, symbol)), range>>,
         <<FromInt(getHigh(freqs, symbol)), range>> >>

\* The factors of (offset + 1) * total, value * range, getLow(symbol) * range
\* and getHigh(symbol) * range in read.
ReadProducts(c, freqs) ==
  LET total == getTotal(freqs)
      range == Add64(Sub64(c.high, c.low), U1)
      offset == Sub64(c.code, c.low)
      value == ValueOf(offset, total, range)
      symbol == SearchLoop(freqs, value, 0, getSymbolLimit(freqs))[1]
  IN  << <<Add64(offset, U1), FromInt(total)>>,
         <<value, range>>,
         <<FromInt(getLow(freqs, symbol)), range>>,
         <<FromInt(getHigh(freqs, symbol)), range>> >>

\* ------------------------------------------------------------------------
\* The state machine
\* ------------------------------------------------------------------------

VARIABLES
  pc,         \* "start", "encoding", "finished", "decoding", "reading", "failed";
              \* "interval", "applied" where one call is applied to one interval
  size,       \* the stateSize the constructors were called with
  enc,        \* the ArithmeticEncoder
  dec,        \* the ArithmeticDecoder
  dec2,       \* a second ArithmeticDecoder, whose input is dec's followed by 0 bits
  sent,       \* the <<table, symbol>> arguments of the calls of write, in order
  tables,     \* the table arguments of the calls of read, in order
  received,   \* the symbols dec's reads returned
  received2,  \* the symbols dec2's reads returned
  products,   \* the factors of the products the last write or read formed
  prev,       \* the object the last call was made on, as it was before the call
  trail       \* low, high and the hooks called, after each write that returned

vars == <<pc, size, enc, dec, dec2, sent, tables, received, received2, products, prev, trail>>

Init ==
  /\ pc = "start"
  /\ size = 0
  /\ enc = NoCoder
  /\ dec = NoCoder
  /\ dec2 = NoCoder
  /\ sent = <<>>
  /\ tables = <<>>
  /\ received = <<>>
  /\ received2 = <<>>
  /\ products = <<>>
  /\ prev = NoCoder
  /\ trail = <<>>

\* The hooks log records, in order.
Hooks(log) == [i \in 1..Len(log) |-> log[i].hook]

\* What trail keeps of the encoder after a write.
Left(c) == [low |-> c.low, high |-> c.high, hooks |-> Hooks(c.log)]

\* new ArithmeticEncoder(stateSize, out)
EncoderConstruct ==
  /\ pc = "start"
  /\ \E stateSize \in CtorSizes :
       /\ size' = stateSize
       /\ enc' = ArithmeticEncoder(stateSize)
  /\ pc' = IF enc'.err # "" THEN "failed" ELSE "encoding"
  /\ prev' = NoCoder
  /\ UNCHANGED <<dec, dec2, sent, tables, received, received2, products, trail>>

\* enc.write(freqs, symbol); an exception ends the run
EncoderWrite ==
  /\ pc = "encoding"
  /\ Len(sent) < MaxLen
  /\ \E freqs \in Tables : \E symbol \in 0..(getSymbolLimit(freqs) - 1) :
       /\ enc' = ArithmeticEncoder_write(enc, freqs, symbol)
       /\ sent' = Append(sent, <<freqs, symbol>>)
       /\ products' = IF enc'.err \in RejectedArgument THEN <<>>
                      ELSE UpdateProducts(enc, freqs, symbol)
  /\ pc' = IF enc'.err # "" THEN "failed" ELSE "encoding"
  /\ prev' = enc
  /\ trail' = IF enc'.err # "" THEN trail ELSE Append(trail, Left(enc'))
  /\ UNCHANGED <<size, dec, dec2, tables, received, received2>>

\* enc.finish()
EncoderFinish ==
  /\ pc = "encoding"
  /\ enc' = ArithmeticEncoder_finish(enc)
  /\ pc' = "finished"
  /\ prev' = enc
  /\ UNCHANGED <<size, dec, dec2, sent, tables, received, received2, products, trail>>

\* new ArithmeticDecoder(stateSize, in) on the bits the encoder wrote, with
\* the encoder's state size
DecoderConstruct ==
  /\ pc = "finished"
  /\ dec' = ArithmeticDecoder(size, enc.output)
  /\ pc' = "decoding"
  /\ prev' = NoCoder
  /\ UNCHANGED <<size, enc, dec2, sent, tables, received, received2, products, trail>>

\* dec.read(freqs) with the table of the next symbol written
DecoderRead ==
  /\ pc = "decoding"
  /\ Len(received) < Len(sent)
  /\ LET freqs == sent[Len(received) + 1][1]
     IN  /\ dec' = ArithmeticDecoder_read(dec, freqs, Trap)
         /\ tables' = Append(tables, freqs)
         /\ products' = IF dec'.err \in RejectedArgument THEN <<>>
                        ELSE ReadProducts(dec, freqs) \o UpdateProducts(dec, freqs, dec'.ret)
  /\ pc' = IF dec'.err # "" THEN "failed" ELSE "decoding"
  /\ received' = IF dec'.err # "" THEN received ELSE Append(received, dec'.ret)
  /\ prev' = dec
  /\ UNCHANGED <<size, enc, dec2, sent, received2, trail>>

\* new ArithmeticDecoder(stateSize, in) on any bits; dec2 gets the same bits
\* followed by pad 0 bits
DecoderConstructOnBits ==
  /\ pc = "start"
  /\ \E stateSize \in CtorSizes : \E bits \in InputBits : \E pad \in 1..MaxPad :
       /\ size' = stateSize
       /\ dec' = ArithmeticDecoder(stateSize, bits)
       /\ dec2' = ArithmeticDecoder(stateSize, bits \o Zeros(pad))
  /\ pc' = IF dec'.err # "" THEN "failed" ELSE "reading"
  /\ prev' = NoCoder
  /\ UNCHANGED <<enc, sent, tables, received, received2, products, trail>>

\* dec.read(freqs) and dec2.read(freqs) with any table; an exception ends the run
\* The outcomes of the undefined behaviour read(freqs) can run into.
UBChoices(freqs) == IF getTotal(freqs) = 0 THEN DivByZeroOutcomes ELSE {Trap}

\* dec.read(freqs) and dec2.read(freqs) with any table; an exception ends the run
DecoderReadAny ==
  /\ pc = "reading"
  /\ Len(tables) < MaxReads
  /\ \E freqs \in Tables : \E ub \in UBChoices(freqs) :
       /\ dec' = ArithmeticDecoder_read(dec, freqs, ub)
       /\ dec2' = ArithmeticDecoder_read(dec2, freqs, ub)
       /\ tables' = Append(tables, freqs)
       /\ products' = IF dec'.err \in RejectedArgument \/ getTotal(freqs) = 0 THEN <<>>
                      ELSE ReadProducts(dec, freqs)
  /\ pc' = IF dec'.err # "" \/ dec2'.err # "" THEN "failed" ELSE "reading"
  /\ received' = IF dec'.err # "" THEN received ELSE Append(received, dec'.ret)
  /\ received2' = IF dec2'.err # "" THEN received2 ELSE Append(received2, dec2'.ret)
  /\ prev' = dec
  /\ UNCHANGED <<size, enc, sent, trail>>

Next ==
  \/ EncoderConstruct
  \/ EncoderWrite
  \/ EncoderFinish
  \/ DecoderConstruct
  \/ DecoderRead
  \/ DecoderConstructOnBits
  \/ DecoderReadAny

Spec == Init /\ [][Next]_vars

\* ------------------------------------------------------------------------
\* One call of write or read on one interval, for every state size
\* ------------------------------------------------------------------------

\* The state sizes the constructors accept.
StateSizes == {stateSize \in -1..65 : ~StateSizeOutOfRange(stateSize)}

\* c with the interval iv = <<low, high>>
WithInterval(c, iv) == [c EXCEPT !.low = iv[1], !.high = iv[2]]

\* Intervals update accepts and leaves behind: the whole range, its lower and
\* its upper half and one more, and one of MIN_RANGE values.
Intervals(c) ==
  {iv \in {<<U0, c.MASK>>,
           <<U0, c.halfRange>>,
           <<Sub64(c.halfRange, U1), c.MASK>>,
           <<Sub64(c.quarterRange, U1), c.halfRange>>} :
     /\ ~StateCheckFails(WithInterval(c, iv))
     /\ ~RangeCheckFails(c, Add64(Sub64(iv[2], iv[1]), U1))}

\* Values of code in the interval iv: its ends and its middle.
Codes(iv) == {iv[1], iv[2], Add64(iv[1], UShr(Sub64(iv[2], iv[1]), 1))}

\* The totals of the tables: the smallest, and the largest c accepts.
Totals(c) ==
  {total \in {1, 2, ToInt(c.MAX_TOTAL)} :
     total >= 1 /\ ~TotalTooLarge(c, total)}

\* Tables of these totals, of one symbol and of two.
TablesOf(c) ==
  {<<total>> : total \in Totals(c)}
    \cup {<<1, total - 1>> : total \in Totals(c) \ {1}}
    \cup {<<total - 1, 1>> : total \in Totals(c) \ {1}}

InitFn ==
  /\ pc = "interval"
  /\ size \in StateSizes
  /\ \E iv \in Intervals(ArithmeticEncoder(size)) :
       /\ enc = WithInterval(ArithmeticEncoder(size), iv)
       /\ \E code \in Codes(iv) :
            dec = [WithInterval(ArithmeticDecoder(size, <<>>), iv) EXCEPT !.code = code]
  /\ dec2 = NoCoder
  /\ sent = <<>>
  /\ tables = <<>>
  /\ received = <<>>
  /\ received2 = <<>>
  /\ products = <<>>
  /\ prev = NoCoder
  /\ trail = <<>>

\* enc.write(freqs, symbol) on the interval
WriteOnce ==
  /\ pc = "interval"
  /\ \E freqs \in TablesOf(enc) : \E symbol \in 0..(getSymbolLimit(freqs) - 1) :
       /\ enc' = ArithmeticEncoder_write(enc, freqs, symbol)
       /\ sent' = <<<<freqs, symbol>>>>
       /\ products' = IF enc'.err \in RejectedArgument THEN <<>>
                      ELSE UpdateProducts(enc, freqs, symbol)
  /\ pc' = "applied"
  /\ prev' = enc
  /\ UNCHANGED <<size, dec, dec2, tables, received, received2, trail>>

\* dec.read(freqs) on the interval
ReadOnce ==
  /\ pc = "interval"
  /\ \E freqs \in TablesOf(dec) :
       /\ dec' = ArithmeticDecoder_read(dec, freqs, Trap)
       /\ tables' = <<freqs>>
       /\ products' = IF dec'.err \in RejectedArgument THEN <<>>
                      ELSE ReadProducts(dec, freqs) \o UpdateProducts(dec, freqs, dec'.ret)
  /\ received' = IF dec'.err # "" THEN <<>> ELSE <<dec'.ret>>
  /\ pc' = "applied"
  /\ prev' = dec
  /\ UNCHANGED <<size, enc, dec2, sent, received2, trail>>

NextFn ==
  \/ WriteOnce
  \/ ReadOnce

SpecFn == InitFn /\ [][NextFn]_vars

\* ------------------------------------------------------------------------
\* The properties
\* ------------------------------------------------------------------------

\* The decoder was constructed on the bits the encoder wrote.
DecodingSent == enc.dir = "encoder" /\ dec.dir = "decoder"

\* C1: round trip.  When every write(table_i, S_i) of an encoder succeeded,
\* finish() was called, and a decoder of the same state size reads the bits
\* written with the same tables, no read fails and the i-th read returns S_i.
C1_RoundTrip ==
  DecodingSent =>
    /\ dec.err = ""
    /\ Len(received) <= Len(sent)
    /\ \A i \in 1..Len(received) : received[i] = sent[i][2]

\* Three symbols, not all the same, written with 62 state bits and read back.
C1_Witness ==
  /\ pc = "decoding"
  /\ size = 62
  /\ Len(sent) = 3
  /\ Len(received) = 3
  /\ received[1] # received[2]

\* The coders constructed so far.
Coders == {c \in {enc, dec, dec2} : c.dir # "none"}

\* The last call on c returned, or threw before it changed c.
Intact(c) == c.err = "" \/ c.err \in RejectedArgument

\* 0 <= low < high <= mask and minRange <= high - low + 1 <= fullRange
IntervalInRange(c) ==
  LET range == Add64(Sub64(c.high, c.low), U1)
  IN  /\ ULess(c.low, c.high)
      /\ ULeq(c.high, c.MASK)
      /\ ULeq(c.MIN_RANGE, range)
      /\ ULeq(range, c.fullRange)

\* C2: interval invariant.  After construction and after every completed
\* write or read, 0 <= low < high <= mask and minRange <= high - low + 1 <=
\* fullRange, and no update ever fails its state check or its range check.
C2_IntervalInvariant ==
  \A c \in Coders :
    /\ Intact(c) => IntervalInRange(c)
    /\ c.err # "logic_error: Assertion error: Low or high out of range"
    /\ c.err # "logic_error: Assertion error: Range out of range"

\* An encoder with 3 state bits after three writes, two bits still deferred.
C2_Witness ==
  /\ pc = "encoding"
  /\ size = 3
  /\ Len(sent) = 3
  /\ enc.numUnderflow = 2
  /\ enc.low # U0

\* The decoders constructed so far.
Decoders == {c \in {dec, dec2} : c.dir = "decoder"}

\* low <= code <= high
CodeInInterval(c) == ULeq(c.low, c.code) /\ ULeq(c.code, c.high)

\* code is inside the interval after every pass of the first loop of update.
RECURSIVE ShiftLoopKeepsCode(_)
ShiftLoopKeepsCode(c) ==
  IF TopBitsEqual(c)
    THEN LET n == ShiftInterval(shift(c))
         IN  CodeInInterval(n) /\ ShiftLoopKeepsCode(n)
  ELSE TRUE

\* code is inside the interval after every pass of the second loop of update.
RECURSIVE UnderflowLoopKeepsCode(_)
UnderflowLoopKeepsCode(c) ==
  IF UnderflowDue(c)
    THEN LET n == UnderflowInterval(underflow(c))
         IN  CodeInInterval(n) /\ UnderflowLoopKeepsCode(n)
  ELSE TRUE

\* The tables the next read of dec can be called with.
NextTables ==
  IF pc = "reading" /\ Len(tables) < MaxReads THEN Tables
  ELSE IF pc = "decoding" /\ Len(received) < Len(sent) THEN {sent[Len(received) + 1][1]}
  ELSE {}

\* The next read of dec with freqs, if it returns, keeps code inside the
\* interval at its narrowing and at every pass of the two loops.
NextReadKeepsCode(freqs) ==
  LET r == ArithmeticDecoder_read(dec, freqs, Trap)
      range == Add64(Sub64(dec.high, dec.low), U1)
      total == getTotal(freqs)
      n == [dec EXCEPT !.low = NewLow(dec.low, getLow(freqs, r.ret), range, total),
                       !.high = NewHigh(dec.low, getHigh(freqs, r.ret), range, total)]
  IN  r.err = "" =>
        /\ CodeInInterval(n)
        /\ ShiftLoopKeepsCode(n)
        /\ UnderflowLoopKeepsCode(ShiftLoop(n))

\* C3: decoder code invariant.  After the construction of a decoder and after
\* every completed read, low <= code <= high, whatever the input bits are,
\* and no read fails the check of code against the interval; inside a read,
\* code stays in the interval after the narrowing and after every pass of the
\* shift loop and of the underflow loop.
C3_CodeInvariant ==
  /\ \A c \in Decoders :
       /\ Intact(c) => CodeInInterval(c)
       /\ c.err # "logic_error: Assertion error: Code out of range"
  /\ \A freqs \in NextTables : NextReadKeepsCode(freqs)

\* A decoder of bits no encoder wrote, after two reads that consumed bits
\* past the end of the input and left code strictly inside the interval.
C3_Witness ==
  /\ pc = "reading"
  /\ Len(received) = 2
  /\ dec.pos > Len(dec.input)
  /\ dec.pos > dec.numStateBits + 1
  /\ ULess(dec.low, dec.code)
  /\ ULess(dec.code, dec.high)

\* getTotal() > maxTotal for the coder c
ExceedsMaxTotal(c, freqs) == ULess(c.MAX_TOTAL, FromInt(getTotal(freqs)))

\* The last call of write had a table of a total above maxTotal.
OversizedWrite ==
  /\ enc.dir = "encoder"
  /\ Len(sent) > 0
  /\ ExceedsMaxTotal(enc, sent[Len(sent)][1])

\* The last call of read on c had a table of a total above maxTotal.
OversizedRead(c) ==
  /\ Len(tables) > 0
  /\ ExceedsMaxTotal(c, tables[Len(tables)])

\* The last call of write had a symbol of zero frequency.
ZeroFrequencyWrite ==
  /\ enc.dir = "encoder"
  /\ Len(sent) > 0
  /\ getLow(sent[Len(sent)][1], sent[Len(sent)][2]) = getHigh(sent[Len(sent)][1], sent[Len(sent)][2])

\* C4 as stated: a table of getTotal() > maxTotal makes write fail with the
\* "total too large" error for every symbol argument, and read fail with the
\* "total too large" error.
C4_Original ==
  /\ OversizedWrite =>
       enc.err = "invalid_argument: Cannot code symbol because total is too large"
  /\ \A c \in Decoders :
       OversizedRead(c) =>
         c.err = "invalid_argument: Cannot decode symbol because total is too large"

\* C4: rejection of an oversized total.  A table of getTotal() > maxTotal
\* makes read fail with the "total too large" error, and write fail with the
\* "total too large" error for every symbol of nonzero frequency; for a symbol
\* of zero frequency write fails with the "zero frequency" error instead.
C4_OversizedTotal ==
  /\ (OversizedWrite /\ ~ZeroFrequencyWrite) =>
       enc.err = "invalid_argument: Cannot code symbol because total is too large"
  /\ (OversizedWrite /\ ZeroFrequencyWrite) =>
       enc.err = "invalid_argument: Symbol has zero frequency"
  /\ \A c \in Decoders :
       OversizedRead(c) =>
         c.err = "invalid_argument: Cannot decode symbol because total is too large"

\* An encoder that wrote two symbols and then rejected a table for its total.
C4_Witness ==
  /\ pc = "failed"
  /\ Len(sent) = 3
  /\ OversizedWrite
  /\ ~ZeroFrequencyWrite
  /\ enc.err = "invalid_argument: Cannot code symbol because total is too large"

\* C5: rejection of a zero-frequency symbol.  write(table, symbol) with
\* getLow(symbol) = getHigh(symbol) fails with the "zero frequency" error; no
\* read fails with that error, and every symbol a read returns has a nonzero
\* frequency in the table of that read.
C5_ZeroFrequency ==
  /\ ZeroFrequencyWrite => enc.err = "invalid_argument: Symbol has zero frequency"
  /\ \A c \in Decoders : c.err # "invalid_argument: Symbol has zero frequency"
  /\ Len(received) <= Len(tables)
  /\ \A i \in 1..Len(received) :
       getLow(tables[i], received[i]) < getHigh(tables[i], received[i])

\* An encoder that wrote two symbols and then rejected a symbol of zero
\* frequency in a table whose total it accepts.
C5_Witness ==
  /\ pc = "failed"
  /\ Len(sent) = 3
  /\ ZeroFrequencyWrite
  /\ ~OversizedWrite
  /\ getTotal(sent[3][1]) > 0
  /\ enc.err = "invalid_argument: Symbol has zero frequency"

\* A minimal two-symbol alphabet: two symbols, each of nonzero frequency.
TwoSymbolTable(freqs) == Len(freqs) = 2 /\ freqs[1] > 0 /\ freqs[2] > 0

\* Every write so far, at least one, was over a minimal two-symbol alphabet.
TwoSymbolSequence ==
  /\ enc.dir = "encoder"
  /\ Len(sent) > 0
  /\ \A i \in 1..Len(sent) : TwoSymbolTable(sent[i][1])

\* The writes succeeded and the reads so far returned the symbols written.
Reproduced ==
  /\ enc.err = ""
  /\ DecodingSent =>
       /\ dec.err = ""
       /\ Len(received) <= Len(sent)
       /\ \A i \in 1..Len(received) : received[i] = sent[i][2]

\* C6 as stated: with stateSize 1 and with stateSize 63, a sequence over a
\* minimal two-symbol alphabet is encoded and decoded to itself.
C6_Original == (size \in {1, 63} /\ TwoSymbolSequence) => Reproduced

\* C6: boundary state sizes.  With stateSize 1, and with stateSize 62, a
\* sequence over a minimal two-symbol alphabet is encoded and decoded to
\* itself; with stateSize 63 maxTotal is 1 and every write with a table of
\* two symbols of nonzero frequency fails with the "total too large" error.
C6_BoundarySizes ==
  /\ (size \in {1, 62} /\ TwoSymbolSequence) => Reproduced
  /\ (size = 63 /\ enc.dir = "encoder") => enc.MAX_TOTAL = U1
  /\ (size = 63 /\ enc.dir = "encoder" /\ Len(sent) > 0 /\ TwoSymbolTable(sent[Len(sent)][1])) =>
       enc.err = "invalid_argument: Cannot code symbol because total is too large"

\* Three symbols over a two-symbol alphabet, both symbols among them, written
\* with 1 state bit and read back.
C6_Witness ==
  /\ pc = "decoding"
  /\ size = 1
  /\ TwoSymbolSequence
  /\ Len(sent) = 3
  /\ received = <<sent[1][2], sent[2][2], sent[3][2]>>
  /\ received[1] # received[3]

\* c is as its constructor leaves it: low = 0 and high = mask = 2^stateSize - 1.
FreshInterval(c) ==
  /\ c.err = ""
  /\ c.numStateBits = size
  /\ c.MASK = Sub64(UPow2(size), U1)
  /\ c.low = U0
  /\ c.high = c.MASK

\* C7: construction range check.  A constructor called with stateSize < 1 or
\* stateSize > 63 fails with a domain error, and a decoder rejected so has
\* read no bit of its input; with stateSize in 1..63 construction succeeds
\* with low = 0, high = mask = 2^stateSize - 1 and, in the encoder,
\* numUnderflow = 0.
C7_Construction ==
  /\ (pc # "start" /\ (size < 1 \/ size > 63)) =>
       /\ pc = "failed"
       /\ \A c \in Coders :
            /\ c.err = "domain_error: State size out of range"
            /\ c.pos = 0
            /\ c.code = U0
  /\ (pc # "start" /\ size >= 1 /\ size <= 63) =>
       \A c \in Coders : c.err # "domain_error: State size out of range"
  /\ (pc = "encoding" /\ sent = <<>>) => (FreshInterval(enc) /\ enc.numUnderflow = 0)
  /\ (pc \in {"decoding", "reading"} /\ tables = <<>>) =>
       \A c \in Decoders : FreshInterval(c) /\ c.pos = size

\* A decoder rejected for a state size of 64, its three input bits unread.
C7_Witness ==
  /\ pc = "failed"
  /\ size = 64
  /\ dec.dir = "decoder"
  /\ Len(dec.input) = 3
  /\ dec.pos = 0
  /\ dec.err = "domain_error: State size out of range"

\* C8: the end of the stream is an endless run of 0 bits.  A decoder of the
\* bits X and a decoder of X followed by explicit 0 bits, constructed with the
\* same state size and given the same reads, return the same symbols, throw
\* the same exceptions and are in the same state; and a decoder of exactly the
\* bits an encoder wrote, the last being the bit of finish(), returns the
\* symbols written.
C8_EndOfStream ==
  /\ dec2.dir = "decoder" =>
       /\ dec2.input # dec.input
       /\ received2 = received
       /\ dec2.err = dec.err
       /\ dec2.code = dec.code
       /\ dec2.low = dec.low
       /\ dec2.high = dec.high
       /\ dec2.pos = dec.pos
  /\ DecodingSent =>
       /\ dec.input = enc.output
       /\ enc.output[Len(enc.output)] = 1
       /\ dec.err = ""
       /\ \A i \in 1..Len(received) : received[i] = sent[i][2]

\* Two reads that took bits past the end of a nonempty input, while the other
\* decoder was still reading the explicit 0 bits after it.
C8_Witness ==
  /\ pc = "reading"
  /\ Len(dec.input) = 3
  /\ dec.pos > Len(dec.input)
  /\ dec2.pos <= Len(dec2.input)
  /\ dec.pos > dec.numStateBits
  /\ Len(received2) = 2
  /\ received2[1] # received2[2]

\* C9: no 64-bit overflow in the narrowing arithmetic.  For every state size
\* in 1..63, every interval of a range in [minRange, fullRange] and every
\* table of a total up to maxTotal, none of the products symLow * range and
\* symHigh * range of update, (offset + 1) * total, value * range,
\* getLow(symbol) * range and getHigh(symbol) * range of read exceeds
\* 2^64 - 1: each product in std::uint64_t is the exact product.
C9_NoOverflow ==
  \A i \in 1..Len(products) :
    /\ ~MulOverflows(products[i][1], products[i][2])
    /\ UMulWide(products[i][1], products[i][2])
         = Mul64(products[i][1], products[i][2]) \o <<0, 0, 0, 0, 0>>

\* A read with 62 state bits on the whole range and the largest total, 3:
\* getHigh(symbol) * range = 3 * 2^62, the largest product below 2^64.
C9_Witness ==
  /\ pc = "applied"
  /\ size = 62
  /\ Len(products) = 6
  /\ products[4] = <<FromInt(3), UPow2(62)>>
  /\ received = <<1>>

\* C10: the counter of deferred bits never wraps.  In every encoder state
\* 0 <= numUnderflow <= the counter's maximum; underflow() called with
\* numUnderflow at the maximum fails with an overflow error and leaves it at
\* the maximum, and otherwise increases numUnderflow by exactly 1.
C10_NumUnderflow ==
  enc.dir = "encoder" =>
    /\ enc.numUnderflow >= 0
    /\ enc.numUnderflow <= NumUnderflowMax
    /\ enc.err = "overflow_error: Maximum underflow reached" =>
         enc.numUnderflow = NumUnderflowMax
    /\ enc.err = "" =>
         LET u == ArithmeticEncoder_underflow(enc)
         IN  IF enc.numUnderflow = NumUnderflowMax
               THEN /\ u.err = "overflow_error: Maximum underflow reached"
                    /\ u.numUnderflow = NumUnderflowMax
             ELSE /\ u.err = ""
                  /\ u.numUnderflow = enc.numUnderflow + 1

\* A write whose underflow() found the counter at its maximum.
C10_Witness ==
  /\ pc = "failed"
  /\ enc.err = "overflow_error: Maximum underflow reached"
  /\ enc.numUnderflow = NumUnderflowMax
  /\ Len(sent) = NumUnderflowMax + 1

\* The number of bits c had written when the i-th logged call was over.
WrittenAfter(c, i) == IF i < Len(c.log) THEN c.log[i + 1].written ELSE Len(c.output)

\* numUnderflow of c when the i-th logged call was over.
NumUnderflowAfter(c, i) == IF i < Len(c.log) THEN c.log[i + 1].numUnderflow ELSE c.numUnderflow

\* The last call on the encoder was a write, and log is the log of that call.
WriteLogged ==
  /\ enc.dir = "encoder"
  /\ prev.dir = "encoder"
  /\ pc \in {"encoding", "failed", "applied"}
  /\ enc.err \notin RejectedArgument

\* C11: encoder shift emission order.  Each call of the encoder's shift(),
\* entered with numUnderflow = n, appends exactly n + 1 bits to the output:
\* first the common top bit t of low and high, then n copies of 1 - t, and
\* leaves numUnderflow = 0; underflow() appends nothing, and a write appends
\* no bits besides those of its calls of shift().
C11_ShiftEmission ==
  WriteLogged =>
    /\ IF enc.log = <<>> THEN Len(enc.output) = Len(prev.output)
       ELSE enc.log[1].written = Len(prev.output)
    /\ SubSeq(enc.output, 1, Len(prev.output)) = prev.output
    /\ \A i \in 1..Len(enc.log) :
         LET e == enc.log[i]
             n == e.numUnderflow
             t == UBit(e.low, enc.numStateBits - 1)
         IN  IF e.hook = "shift"
               THEN /\ UBit(e.high, enc.numStateBits - 1) = t
                    /\ WrittenAfter(enc, i) = e.written + n + 1
                    /\ SubSeq(enc.output, e.written + 1, e.written + n + 1)
                         = <<t>> \o [j \in 1..n |-> 1 - t]
                    /\ NumUnderflowAfter(enc, i) = 0
             ELSE /\ WrittenAfter(enc, i) = e.written
                  /\ NumUnderflowAfter(enc, i) = n + 1

\* A write whose shift() was entered with two deferred bits and a top bit of 0.
C11_Witness ==
  /\ WriteLogged
  /\ pc = "encoding"
  /\ \E i \in 1..Len(enc.log) :
       /\ enc.log[i].hook = "shift"
       /\ enc.log[i].numUnderflow = 2
       /\ UBit(enc.log[i].low, enc.numStateBits - 1) = 0

\* low and high of c as the narrowing of its last update left them, before
\* the loops.
Narrowed(c) == IF c.log = <<>> THEN <<c.low, c.high>> ELSE <<c.log[1].low, c.log[1].high>>

\* Tables c accepts: one symbol, two, and more with symbols of zero frequency
\* first, last and in between.
PartitionTables(c) ==
  {freqs \in TablesOf(c) \cup Tables
              \cup {<<0, 1, 0, ToInt(c.MAX_TOTAL) - 2, 0, 1, 0>>,
                    <<ToInt(c.MAX_TOTAL) - 2, 1, 1>>} :
     /\ \A i \in 1..Len(freqs) : freqs[i] >= 0
     /\ getTotal(freqs) >= 1
     /\ ~TotalTooLarge(c, getTotal(freqs))}

\* The symbols of nonzero frequency of freqs.
NonZero(freqs) ==
  {symbol \in 0..(getSymbolLimit(freqs) - 1) : getLow(freqs, symbol) # getHigh(freqs, symbol)}

\* The intervals update(freqs, symbol) narrows the interval of c to, for the
\* symbols from symbol on, in order.
RECURSIVE Cells(_, _, _)
Cells(c, freqs, symbol) ==
  IF symbol >= getSymbolLimit(freqs) THEN <<>>
  ELSE <<Narrowed(update(c, freqs, symbol))>> \o Cells(c, freqs, symbol + 1)

\* The sub-intervals update(freqs, symbol) narrows the interval of c to, for
\* the symbols of nonzero frequency, are non-empty, pairwise disjoint, inside
\* [low, high] and cover it.
Partitions(c, freqs) ==
  LET cell == Cells(c, freqs, 0)
  IN  /\ \A s \in NonZero(freqs) :
           /\ ULeq(cell[s + 1][1], cell[s + 1][2])
           /\ ULeq(c.low, cell[s + 1][1])
           /\ ULeq(cell[s + 1][2], c.high)
           /\ \A t \in NonZero(freqs) : s < t => ULess(cell[s + 1][2], cell[t + 1][1])
           /\ \/ cell[s + 1][2] = c.high
              \/ \E t \in NonZero(freqs) : cell[t + 1][1] = Add64(cell[s + 1][2], U1)
      /\ \E s \in NonZero(freqs) : cell[s + 1][1] = c.low
      /\ \E s \in NonZero(freqs) : cell[s + 1][2] = c.high

\* The last call was a write on the interval of prev, and it narrowed it.
WroteOnce ==
  /\ pc = "applied"
  /\ Len(sent) = 1
  /\ enc.err \notin RejectedArgument

\* C12: narrowing partitions the interval.  For every interval update accepts
\* and every table with 1 <= total <= maxTotal, the sub-intervals
\* [low + floor(symLow*range/total), low + floor(symHigh*range/total) - 1] of
\* the symbols of nonzero frequency are non-empty, pairwise disjoint, inside
\* [low, high] and together cover it; a write narrows the interval to a
\* non-empty part of the interval it found.  (The intervals are those of the
\* initial states; one value of code for each is enough, the encoder having none.)
C12_Partition ==
  /\ pc = "interval" /\ dec.code = dec.low =>
       \A freqs \in PartitionTables(enc) : Partitions(enc, freqs)
  /\ WroteOnce =>
       /\ ULeq(prev.low, Narrowed(enc)[1])
       /\ ULeq(Narrowed(enc)[1], Narrowed(enc)[2])
       /\ ULeq(Narrowed(enc)[2], prev.high)

\* A write with a table of the largest total on an interval of MIN_RANGE
\* values, at state size 62.
C12_Witness ==
  /\ WroteOnce
  /\ size = 62
  /\ Add64(Sub64(prev.high, prev.low), U1) = prev.MIN_RANGE
  /\ sent[1] = <<<<1, 2>>, 1>>
  /\ Narrowed(enc)[2] = prev.high

\* The last call was dec.read(LastTable), made on prev.
ReadCalled ==
  /\ dec.dir = "decoder"
  /\ prev.dir = "decoder"
  /\ Len(tables) > 0
  /\ pc \in {"decoding", "reading", "failed"}

LastTable == tables[Len(tables)]

\* The value read computes: floor(((code - low + 1) * total - 1) / range)
LastValue ==
  ValueOf(Sub64(prev.code, prev.low), getTotal(LastTable),
          Add64(Sub64(prev.high, prev.low), U1))

\* getLow(symbol) <= value < getHigh(symbol)
Holds(freqs, symbol, value) ==
  /\ ULeq(FromInt(getLow(freqs, symbol)), value)
  /\ ULess(value, FromInt(getHigh(freqs, symbol)))

\* The last read returned the one symbol whose range of the table holds
\* value, and narrowed the interval to a sub-interval that holds code.
LookedUp ==
  /\ dec.err = ""
  /\ ULess(LastValue, FromInt(getTotal(LastTable)))
  /\ dec.ret \in 0..(getSymbolLimit(LastTable) - 1)
  /\ \A symbol \in 0..(getSymbolLimit(LastTable) - 1) :
       Holds(LastTable, symbol, LastValue) <=> symbol = dec.ret
  /\ ULeq(Narrowed(dec)[1], prev.code)
  /\ ULeq(prev.code, Narrowed(dec)[2])

\* C13 as stated: for every table obeying the contract with symbolLimit >= 1
\* and every code with low <= code <= high, 0 <= value < total and the search
\* ends at the one symbol with getLow(symbol) <= value < getHigh(symbol),
\* whose narrowed sub-interval contains code (read for the tables read looks
\* a symbol up in, those it does not reject as too large).
C13_Original ==
  ReadCalled /\ CodeInInterval(prev) /\ ~OversizedRead(prev) => LookedUp

\* C13: decoder symbol lookup.  For every table obeying the contract with
\* symbolLimit >= 1 and 1 <= total <= maxTotal (symbols of zero frequency
\* anywhere) and every code with low <= code <= high, value =
\* floor(((code - low + 1) * total - 1) / range) satisfies 0 <= value < total,
\* and read returns the one symbol with getLow(symbol) <= value <
\* getHigh(symbol), whose narrowed sub-interval contains code.
C13_Lookup ==
  ReadCalled /\ CodeInInterval(prev) /\ ~OversizedRead(prev) /\ getTotal(LastTable) >= 1
    => LookedUp

\* A read on arbitrary bits that returned the symbol between two symbols of
\* zero frequency, after an earlier read had narrowed the interval.
C13_Witness ==
  /\ ReadCalled
  /\ pc = "reading"
  /\ LastTable = <<0, 1, 2, 0>>
  /\ Len(received) = 2
  /\ dec.ret = 2
  /\ prev.low # U0

\* low and high of c when the body of the loop had run after the i-th logged call.
IntervalAfter(c, i) ==
  IF i < Len(c.log) THEN <<c.log[i + 1].low, c.log[i + 1].high>> ELSE <<c.low, c.high>>

\* The top bit of x in c: bit numStateBits - 1.
TopBit(c, x) == UBit(x, c.numStateBits - 1)

\* C14: top-bit resolution has priority over underflow.  An underflow step is
\* taken only when the top bits of low and high differ, and no shift step
\* after an underflow step; every underflow step leaves the top bit of
\* low = 0 and the top bit of high = 1; and on return from update neither
\* ((low ^ high) & halfRange) == 0 nor (low & ~high & quarterRange) != 0 holds.
C14_TopBitFirst ==
  \A c \in Coders :
    c.numStateBits >= 1 =>
      /\ \A i \in 1..Len(c.log) :
           c.log[i].hook = "underflow" =>
             /\ TopBit(c, c.log[i].low) = 0
             /\ TopBit(c, c.log[i].high) = 1
             /\ TopBit(c, IntervalAfter(c, i)[1]) = 0
             /\ TopBit(c, IntervalAfter(c, i)[2]) = 1
             /\ \A j \in (i + 1)..Len(c.log) : c.log[j].hook = "underflow"
      /\ c.err = "" => ~TopBitsEqual(c) /\ ~UnderflowDue(c)

\* A write that took a shift step and then an underflow step.
C14_Witness ==
  /\ pc = "encoding"
  /\ enc.err = ""
  /\ Hooks(enc.log) = <<"shift", "underflow">>

\* C15: encoder/decoder lockstep.  When a decoder reads the bits an encoder
\* wrote, with the same state size and the same tables, then for every k the
\* decoder's low and high after its k-th read are the encoder's after its
\* k-th write, and in the k-th call both made the same calls of shift() and
\* underflow() in the same order.
C15_Lockstep ==
  DecodingSent =>
    LET k == Len(received)
    IN  /\ dec.err = ""
        /\ Len(trail) = Len(sent)
        /\ k = 0 => dec.low = U0 /\ dec.high = enc.MASK /\ dec.log = <<>>
        /\ k >= 1 =>
             /\ dec.low = trail[k].low
             /\ dec.high = trail[k].high
             /\ Hooks(dec.log) = trail[k].hooks

\* A second read that made a call of underflow(), as the second write had,
\* after a first read that had narrowed the interval.
C15_Witness ==
  /\ DecodingSent
  /\ Len(received) = 2
  /\ trail[1].low # U0
  /\ \E i \in 1..Len(dec.log) : dec.log[i].hook = "underflow"

\* The bits finish() has written: one once it was called.
FinishBits == IF pc \in {"finished", "decoding"} THEN 1 ELSE 0

\* C16: deferred bits are never miscounted.  After any sequence of writes the
\* number of bits written so far plus numUnderflow equals the number of calls
\* of shift() and underflow() since construction (finish() adds its one bit);
\* after any sequence of reads the number of bits a decoder has requested from
\* its input equals b plus the number of these calls, the first b of them
\* requested at construction.
C16_DeferredBits ==
  /\ enc.dir = "encoder" =>
       Len(enc.output) + enc.numUnderflow = enc.steps + FinishBits
  /\ \A c \in Decoders :
       /\ c.pos = c.numStateBits + c.steps
       /\ Len(tables) = 0 => c.steps = 0

\* Three writes, the first two of which left two deferred bits that a shift()
\* of the third wrote.
C16_Witness ==
  /\ pc = "encoding"
  /\ Len(trail) = 3
  /\ trail[1].hooks = <<"underflow">>
  /\ trail[2].hooks = <<"underflow">>
  /\ enc.log # <<>>
  /\ enc.log[1].hook = "shift"
  /\ enc.log[1].numUnderflow = 2
  /\ enc.numUnderflow = 0

\* C17: finish() disambiguates with one bit.  finish() appends exactly one
\* bit, of value 1, whatever the encoder state (saved underflow bits are not
\* written), and leaves low, high and numUnderflow as they are; after every
\* completed update low < halfRange <= high, so that the code word made of
\* that 1 bit and the 0 bits implied after it, which is what a decoder holds
\* in code when it has read every symbol, lies inside the final interval.
C17_Finish ==
  /\ pc = "finished" =>
       /\ enc.output = Append(prev.output, 1)
       /\ enc.low = prev.low
       /\ enc.high = prev.high
       /\ enc.numUnderflow = prev.numUnderflow
       /\ enc.err = ""
  /\ \A c \in Coders :
       c.numStateBits >= 1 /\ c.err = "" =>
         ULess(c.low, c.halfRange) /\ ULeq(c.halfRange, c.high)
  /\ pc = "decoding" /\ Len(received) = Len(sent) =>
       /\ dec.code = dec.halfRange
       /\ dec.low = enc.low
       /\ dec.high = enc.high

\* finish() called with two saved underflow bits.
C17_Witness ==
  /\ pc = "finished"
  /\ prev.numUnderflow = 2
  /\ enc.numUnderflow = 2
  /\ Len(enc.output) = Len(prev.output) + 1

\* The last call was enc.write, made on prev.
WriteCalled ==
  /\ enc.dir = "encoder"
  /\ prev.dir = "encoder"
  /\ Len(sent) > 0
  /\ pc \in {"encoding", "failed"}

\* C18: rejected operations change nothing.  When write fails with the
\* zero-frequency or the total-too-large error, low, high and numUnderflow
\* are as before the call and no bit has been appended to the output; when
\* read fails with the total-too-large error, low, high and code are as
\* before the call and no bit has been consumed from the input.
C18_RejectedUnchanged ==
  /\ WriteCalled /\ enc.err \in RejectedArgument =>
       /\ enc.low = prev.low
       /\ enc.high = prev.high
       /\ enc.numUnderflow = prev.numUnderflow
       /\ enc.output = prev.output
  /\ ReadCalled /\ dec.err \in RejectedArgument =>
       /\ dec.err = "invalid_argument: Cannot decode symbol because total is too large"
       /\ dec.low = prev.low
       /\ dec.high = prev.high
       /\ dec.code = prev.code
       /\ dec.pos = prev.pos
  /\ WriteCalled /\ (ZeroFrequencyWrite \/ OversizedWrite) => enc.err \in RejectedArgument
  /\ ReadCalled /\ OversizedRead(prev) => dec.err \in RejectedArgument

\* A write rejected for its total by an encoder that had narrowed its
\* interval and saved an underflow bit.
C18_Witness ==
  /\ WriteCalled
  /\ enc.err = "invalid_argument: Cannot code symbol because total is too large"
  /\ prev.numUnderflow >= 1
  /\ prev.low # U0
  /\ prev.output # <<>>

\* 1 <= total <= maxTotal and symbolLimit >= 1
ValidTable(c, freqs) ==
  /\ getSymbolLimit(freqs) >= 1
  /\ getTotal(freqs) >= 1
  /\ ~ExceedsMaxTotal(c, freqs)

\* The checks of read and update that throw std::logic_error.
LogicErrors ==
  {"logic_error: Assertion error",
   "logic_error: Assertion error: Low or high out of range",
   "logic_error: Assertion error: Range out of range",
   "logic_error: Assertion error: Code out of range"}

\* C19: a decoder fed arbitrary bits never trips an internal assertion.  For
\* every input bit sequence, every state size and every sequence of valid
\* tables (1 <= total <= maxTotal, symbolLimit >= 1), none of the logic-error
\* checks of read and update fires, and every read returns a symbol.
C19_NoAssertion ==
  \A c \in Decoders :
    c.numStateBits >= 1 /\ (\A i \in 1..Len(tables) : ValidTable(c, tables[i])) =>
      /\ c.err \notin LogicErrors
      /\ c.err = ""
      /\ c = dec => Len(received) = Len(tables)
      /\ Len(tables) > 0 => c.ret \in NonZero(tables[Len(tables)])

\* Two reads returned on an input of 0 bits only, which no encoder writes.
C19_Witness ==
  /\ pc = "reading"
  /\ size = 3
  /\ dec.input = <<0, 0, 0>>
  /\ tables = <<<<1, 2, 1>>, <<0, 1, 2, 0>>>>
  /\ Len(received) = 2

\* The number of calls of hook that log records.
Count(log, hook) == Cardinality({i \in 1..Len(log) : log[i].hook = hook})

\* The first loop of the last update of c made at most b passes, the second
\* at most b - 1.
StepsBounded(c) ==
  /\ Count(c.log, "shift") <= c.numStateBits
  /\ Count(c.log, "underflow") <= c.numStateBits - 1

\* Tables of the largest total c accepts whose last symbol has frequency 1 or
\* 2: on an interval of MIN_RANGE values it gets a sub-interval of as few.
NarrowTables(c) ==
  {freqs \in {<<ToInt(c.MAX_TOTAL) - 1, 1>>, <<ToInt(c.MAX_TOTAL) - 2, 2>>,
              <<1, ToInt(c.MAX_TOTAL) - 3, 2>>} :
     \A i \in 1..Len(freqs) : freqs[i] >= 1}

\* C20: every update ends after a bounded number of renormalization steps.
\* From every interval update accepts, with a valid table and a symbol of
\* nonzero frequency, the first loop makes at most b passes and the second at
\* most b - 1 (none when b = 1), and the call returns.
C20_BoundedSteps ==
  /\ \A c \in Coders : StepsBounded(c)
  /\ pc = "applied" /\ Len(tables) = 1 => dec.err = ""
  /\ pc = "interval" /\ dec.code = dec.low =>
       \A freqs \in NarrowTables(dec) : \A symbol \in NonZero(freqs) :
         LET u == update(dec, freqs, symbol)
         IN  u.err = "" /\ StepsBounded(u)

\* A read at state size 32 whose first loop made 32 passes.
C20_Witness ==
  /\ pc = "applied"
  /\ size = 32
  /\ received = <<1>>
  /\ Count(dec.log, "shift") = 32
====
